---- MODULE Spec2Model ----
(***************************************************************************)
(* Checkout flow of the storefront cart page (src/src/pages/Cart.jsx).     *)
(*                                                                         *)
(* Each client is one mounted Cart page (one browser tab) with its own     *)
(* Cart Store, its own isCheckingOut / checkoutError state and at most one *)
(* handleCheckout invocation in flight.  All clients talk to the same      *)
(* remote product service, whose stock is the only shared state.  Every    *)
(* `await` of handleCheckout is one step of the model: the remote call is  *)
(* served atomically at that step and the synchronous code that follows it *)
(* up to the next await runs in the same step.                             *)
(***************************************************************************)
EXTENDS Integers, Sequences, FiniteSets, TLC

(* ------------------------------ bounds -------------------------------- *)
MaxStock == 3
MaxQty == 2

(* two tabs of one browser session: "a" holds any cart, the concurrent tab *)
(* "b" a cart of at most one line                                          *)
Clients == {"a", "b"}
Products == {1, 2}
MaxLines == [c \in Clients |-> IF c = "a" THEN Cardinality(Products) ELSE 1]

(* unit price of each product, copied into the cart line as item.precio *)
Precio == [p \in Products |-> IF p = 1 THEN 10000 ELSE 30000]

Null == <<>>

(* the value of useContext(AuthContext).user: null or an object with an id *)
Users == {Null, <<"user", 7>>}

(* error.message of the failures of productService.getById, shown by       *)
(* validateStock; the failures of updateProductStock are swallowed there   *)
FetchErrors == {<<"NotFound">>, <<"NetworkError">>}

VARIABLES
    stock,          \* remote product service: product id -> stock
    cartItems,      \* Cart Store of each client: sequence of cart lines
    user,           \* the Auth Store's user (shared by the tabs), or Null
    isCheckingOut,  \* useState(false), Cart.jsx:20
    checkoutError,  \* useState(null), Cart.jsx:21
    pc,             \* where handleCheckout of each client stands
    items,          \* the cartItems captured by the running handleCheckout
    idx,            \* index of the line the current for-loop is at
    product,        \* the product returned by the last getById of updateProductStock
    order,          \* the order object built at Cart.jsx:111
    alerted,        \* the text of the confirmation alert, Cart.jsx:138
    calls,          \* remote calls issued by the current checkout, in order
    lastClick,      \* what the last click on the checkout trigger led to
    change,         \* the last handleQuantityChange of each client, Cart.jsx:31
    formData,       \* Register.jsx:7, the fields of the registration form
    acceptTerms,    \* Register.jsx:18
    errors,         \* Register.jsx:17, field name -> message
    registered      \* the userData handed to register, Register.jsx:113

(* the state of the Cart page, of its handleCheckout and of the service *)
checkoutVars == <<stock, cartItems, user, isCheckingOut, checkoutError, pc,
                  items, idx, product, order, alerted, calls, lastClick>>

(* the state of the registration page *)
formVars == <<formData, acceptTerms, errors, registered>>

(* what a step of handleCheckout leaves alone *)
elsewhere == <<change, formVars>>

vars == <<checkoutVars, change, formVars>>

(* ------------------------------ helpers ------------------------------- *)
Max(a, b) == IF a >= b THEN a ELSE b

Line(p, q) == [id |-> p, precio |-> Precio[p], quantity |-> q]

(* carts the Cart Store can hold with at most n lines: no two lines share a *)
(* product, every quantity is >= 1                                          *)
Carts(n) ==
    LET one == {<<Line(p, q)>> : p \in Products, q \in 1..MaxQty}
        two == {<<Line(p1, q1), Line(p2, q2)>> :
                   p1 \in Products, p2 \in Products,
                   q1 \in 1..MaxQty, q2 \in 1..MaxQty}
    IN  {<<>>} \cup (IF n >= 1 THEN one ELSE {})
               \cup (IF n >= 2 THEN {c \in two : c[1].id # c[2].id} ELSE {})

RECURSIVE SumSubtotals(_)
SumSubtotals(ls) ==
    IF ls = <<>> THEN 0
    ELSE Head(ls).precio * Head(ls).quantity + SumSubtotals(Tail(ls))

(* CartContext.getCartTotal: sum over the lines of precio * quantity *)
getCartTotal(ls) == SumSubtotals(ls)

(* CartContext.clearCart: empties the cart *)
clearCart(c) == [cartItems EXCEPT ![c] = <<>>]

(* Intl.NumberFormat('es-AR', currency ARS, no decimals): "$ 20.000" is    *)
(* modelled as the currency sign followed by the groups of three digits.   *)
RECURSIVE Groups(_)
Groups(n) == IF n < 1000 THEN <<n>> ELSE Append(Groups(n \div 1000), n % 1000)

formatPrice(price) == <<"$">> \o Groups(price)

(* one entry of the log of remote calls *)
Call(op, phase, id, ok, st) ==
    [op |-> op, phase |-> phase, id |-> id, ok |-> ok, stock |-> st]

InFlight == {"Validating", "Decrementing", "Writing"}

(* ------------------------------ messages ------------------------------ *)
(* Cart.jsx:69 *)
StockMessageQuantity(item, available) ==
    <<"No hay suficiente stock de", item.id, "Stock disponible", item.quantity>>

StockMessage(item, available) ==
    <<"No hay suficiente stock de", item.id, "Stock disponible", available>>

(* Cart.jsx:130 *)
UpdateMessage(item) == <<"Error al actualizar stock de", item.id>>

(* reading user.id of a null user throws a TypeError, whose message is *)
TypeErrorMessage == <<"Cannot read properties of null (reading 'id')">>

(* Cart.jsx:148: error.message || 'Error al procesar la compra' *)
CaughtMessage(message) ==
    IF message = Null THEN <<"Error al procesar la compra">> ELSE message

(* Cart.jsx:138-142 *)
Confirmation(o) == <<"Compra realizada con exito", "Total", formatPrice(o.total)>>

(* ------------------------------- state -------------------------------- *)
(* the page as mounted: Cart.jsx:20-21, no checkout requested yet *)
Mounted ==
    /\ isCheckingOut = [c \in Clients |-> FALSE]
    /\ checkoutError = [c \in Clients |-> Null]
    /\ pc = [c \in Clients |-> "Idle"]
    /\ items = [c \in Clients |-> <<>>]
    /\ idx = [c \in Clients |-> 0]
    /\ product = [c \in Clients |-> Null]
    /\ order = [c \in Clients |-> Null]
    /\ alerted = [c \in Clients |-> Null]
    /\ calls = [c \in Clients |-> <<>>]
    /\ lastClick = [c \in Clients |-> "none"]
    /\ change = [c \in Clients |-> Null]

(* Register.jsx:7-18: the registration page as mounted *)
EmptyForm ==
    [nombreUsuario |-> <<>>, nombre |-> <<>>, apellido |-> <<>>,
     email |-> <<>>, password |-> <<>>, confirmPassword |-> <<>>]

(* Register.jsx:17: useState({}), a map without keys *)
NoErrors == [k \in {} |-> ""]

FormMounted ==
    /\ formData = EmptyForm
    /\ acceptTerms = FALSE
    /\ errors = NoErrors
    /\ registered = Null

Init ==
    /\ stock \in [Products -> 0..MaxStock]
    /\ cartItems \in {f \in [Clients -> Carts(Cardinality(Products))] :
                         \A c \in Clients : Len(f[c]) <= MaxLines[c]}
    /\ user \in Users
    /\ Mounted
    /\ FormMounted

(* the example scenario of the spec (section 8): client "a" holds the cart *)
(* [{id:1, price:10000, qty:2}] and the remote stock of product 1 is 5;    *)
(* the other tab holds an empty cart                                       *)
InitExample ==
    /\ stock \in {[p \in Products |-> IF p = 1 THEN 5 ELSE n] : n \in 0..MaxStock}
    /\ cartItems = [c \in Clients |-> IF c = "a" THEN <<Line(1, 2)>> ELSE <<>>]
    /\ user \in Users
    /\ Mounted
    /\ FormMounted

(* the checkout ends in Failed with `message` in the checkout error state: *)
(* Cart.jsx:74-75 and 106, or Cart.jsx:148-150                             *)
FailNoMessage(c, message) ==
    /\ checkoutError' = checkoutError
    /\ isCheckingOut' = [isCheckingOut EXCEPT ![c] = FALSE]
    /\ pc' = [pc EXCEPT ![c] = "Failed"]

(* mutant of Fail: a failed checkout leaves the in-progress flag up *)
FailFlagStays(c, message) ==
    /\ checkoutError' = [checkoutError EXCEPT ![c] = message]
    /\ isCheckingOut' = isCheckingOut
    /\ pc' = [pc EXCEPT ![c] = "Failed"]

Fail(c, message) ==
    /\ checkoutError' = [checkoutError EXCEPT ![c] = message]
    /\ isCheckingOut' = [isCheckingOut EXCEPT ![c] = FALSE]
    /\ pc' = [pc EXCEPT ![c] = "Failed"]

(* Cart.jsx:111-124 *)
(* mutant of MakeOrder: a line snapshot's subtotal forgets the quantity *)
MakeOrderUnitSubtotal(c) ==
    [userId |-> user[2],
     items |-> [i \in 1..Len(items[c]) |->
                  [productId |-> items[c][i].id,
                   precio |-> items[c][i].precio,
                   quantity |-> items[c][i].quantity,
                   subtotal |-> items[c][i].precio]],
     total |-> getCartTotal(items[c]),
     estado |-> "confirmada"]

MakeOrder(c) ==
    [userId |-> user[2],
     items |-> [i \in 1..Len(items[c]) |->
                  [productId |-> items[c][i].id,
                   precio |-> items[c][i].precio,
                   quantity |-> items[c][i].quantity,
                   subtotal |-> items[c][i].precio * items[c][i].quantity]],
     total |-> getCartTotal(items[c]),
     estado |-> "confirmada"]

(* Cart.jsx:97 *)
CartIsEmptyNever(c) == FALSE

CartIsEmpty(c) == Len(cartItems[c]) = 0

(* Cart.jsx:68 *)
InsufficientSwapped(available, quantity) == quantity < available

Insufficient(available, quantity) == available < quantity

(* Cart.jsx:66 and 127: the for-of loop has another line to visit *)
HasNextOffByOne(c) == idx[c] + 1 < Len(items[c])

HasNext(c) == idx[c] < Len(items[c])

(* Cart.jsx:81-82: the stock the decrement starts from *)
ValidatedStock(c) == calls[c][idx[c]].stock

CurrentStock(c) == product[c].stock

(* Cart.jsx:82-86 *)
NewStockNoClamp(productStock, quantityToSubtract) ==
    productStock - quantityToSubtract

NewStock(productStock, quantityToSubtract) ==
    Max(0, productStock - quantityToSubtract)

(* ------------------------------ actions ------------------------------- *)
(* Cart.jsx:96-104: a click on the checkout trigger, which is disabled     *)
(* while isCheckingOut (Cart.jsx:383)                                      *)
(* mutant of TriggerBusy: the trigger stays enabled during a checkout *)
TriggerNeverBusy(c) == FALSE

(* Cart.jsx:383: the in-progress half of the checkout button's disabled
   attribute; the empty-cart half is repeated by the handler's own guard at
   line 97, which HandleCheckout models *)
TriggerBusy(c) == isCheckingOut[c]

(* mutant of HandleCheckout: the message of the last failure is kept *)
HandleCheckoutKeepsError(c) ==
    /\ ~TriggerBusy(c)
    /\ UNCHANGED elsewhere
    /\ IF CartIsEmpty(c)
       THEN /\ lastClick' = [lastClick EXCEPT ![c] = "ignored"]
            /\ UNCHANGED <<isCheckingOut, checkoutError, pc, items, idx,
                           order, alerted, calls>>
       ELSE /\ lastClick' = [lastClick EXCEPT ![c] =
                    IF pc[c] = "Failed" THEN "retried" ELSE "started"]
            /\ isCheckingOut' = [isCheckingOut EXCEPT ![c] = TRUE]
            /\ UNCHANGED checkoutError
            /\ items' = [items EXCEPT ![c] = cartItems[c]]
            /\ idx' = [idx EXCEPT ![c] = 1]
            /\ pc' = [pc EXCEPT ![c] = "Validating"]
            /\ order' = [order EXCEPT ![c] = Null]
            /\ alerted' = [alerted EXCEPT ![c] = Null]
            /\ calls' = [calls EXCEPT ![c] = <<>>]
    /\ UNCHANGED <<stock, cartItems, user, product>>

HandleCheckout(c) ==
    /\ ~TriggerBusy(c)
    /\ UNCHANGED elsewhere
    /\ IF CartIsEmpty(c)
       THEN /\ lastClick' = [lastClick EXCEPT ![c] = "ignored"]
            /\ UNCHANGED <<isCheckingOut, checkoutError, pc, items, idx,
                           order, alerted, calls>>
       ELSE /\ lastClick' = [lastClick EXCEPT ![c] =
                    IF pc[c] = "Failed" THEN "retried" ELSE "started"]
            /\ isCheckingOut' = [isCheckingOut EXCEPT ![c] = TRUE]
            /\ checkoutError' = [checkoutError EXCEPT ![c] = Null]
            /\ items' = [items EXCEPT ![c] = cartItems[c]]
            /\ idx' = [idx EXCEPT ![c] = 1]
            /\ pc' = [pc EXCEPT ![c] = "Validating"]
            /\ order' = [order EXCEPT ![c] = Null]
            /\ alerted' = [alerted EXCEPT ![c] = Null]
            /\ calls' = [calls EXCEPT ![c] = <<>>]
    /\ UNCHANGED <<stock, cartItems, user, product>>

(* mutant of ValidateFetchFails: a rejected getById lets the line pass *)
ValidateFetchFailsPassed(c) ==
    /\ pc[c] = "Validating"
    /\ UNCHANGED elsewhere
    /\ calls' = [calls EXCEPT ![c] =
          Append(@, Call("getById", "validate", items[c][idx[c]].id, FALSE, 0))]
    /\ IF HasNext(c)
       THEN /\ idx' = [idx EXCEPT ![c] = @ + 1]
            /\ UNCHANGED <<checkoutError, isCheckingOut, pc, order>>
       ELSE IF user = Null
       THEN /\ Fail(c, CaughtMessage(TypeErrorMessage))
            /\ UNCHANGED <<idx, order>>
       ELSE /\ order' = [order EXCEPT ![c] = MakeOrder(c)]
            /\ idx' = [idx EXCEPT ![c] = 1]
            /\ pc' = [pc EXCEPT ![c] = "Decrementing"]
            /\ UNCHANGED <<checkoutError, isCheckingOut>>
    /\ UNCHANGED <<stock, cartItems, user, items, product, alerted, lastClick>>

(* Cart.jsx:67, 73-75, 105-108: getById of validateStock rejects *)
ValidateFetchFails(c) ==
    /\ pc[c] = "Validating"
    /\ UNCHANGED elsewhere
    /\ \E e \in FetchErrors :
          /\ calls' = [calls EXCEPT ![c] =
                Append(@, Call("getById", "validate", items[c][idx[c]].id, FALSE, 0))]
          /\ Fail(c, e)
    /\ UNCHANGED <<stock, cartItems, user, items, idx, product, order,
                   alerted, lastClick>>

(* mutant of ValidateFetch: the order is built without reading user.id, *)
(* so a checkout without a user goes on to the decrement loop           *)
ValidateFetchAnonymousOrder(c) ==
    /\ pc[c] = "Validating"
    /\ UNCHANGED elsewhere
    /\ LET item == items[c][idx[c]]
           available == stock[item.id]
       IN  /\ calls' = [calls EXCEPT ![c] =
                 Append(@, Call("getById", "validate", item.id, TRUE, available))]
           /\ IF Insufficient(available, item.quantity)
              THEN /\ Fail(c, StockMessage(item, available))
                   /\ UNCHANGED <<idx, order>>
              ELSE IF HasNext(c)
              THEN /\ idx' = [idx EXCEPT ![c] = @ + 1]
                   /\ UNCHANGED <<checkoutError, isCheckingOut, pc, order>>
              ELSE /\ order' = [order EXCEPT ![c] =
                            IF user = Null
                            THEN [userId |-> Null, items |-> items[c],
                                  total |-> getCartTotal(items[c]),
                                  estado |-> "confirmada"]
                            ELSE MakeOrder(c)]
                   /\ idx' = [idx EXCEPT ![c] = 1]
                   /\ pc' = [pc EXCEPT ![c] = "Decrementing"]
                   /\ UNCHANGED <<checkoutError, isCheckingOut>>
    /\ UNCHANGED <<stock, cartItems, user, items, product, alerted, lastClick>>

(* Cart.jsx:66-72, 104-124: getById of validateStock resolves *)
ValidateFetch(c) ==
    /\ pc[c] = "Validating"
    /\ UNCHANGED elsewhere
    /\ LET item == items[c][idx[c]]
           available == stock[item.id]
       IN  /\ calls' = [calls EXCEPT ![c] =
                 Append(@, Call("getById", "validate", item.id, TRUE, available))]
           /\ IF Insufficient(available, item.quantity)
              THEN /\ Fail(c, StockMessage(item, available))
                   /\ UNCHANGED <<idx, order>>
              ELSE IF HasNext(c)
              THEN /\ idx' = [idx EXCEPT ![c] = @ + 1]
                   /\ UNCHANGED <<checkoutError, isCheckingOut, pc, order>>
              ELSE IF user = Null
              THEN /\ Fail(c, CaughtMessage(TypeErrorMessage))
                   /\ UNCHANGED <<idx, order>>
              ELSE /\ order' = [order EXCEPT ![c] = MakeOrder(c)]
                   /\ idx' = [idx EXCEPT ![c] = 1]
                   /\ pc' = [pc EXCEPT ![c] = "Decrementing"]
                   /\ UNCHANGED <<checkoutError, isCheckingOut>>
    /\ UNCHANGED <<stock, cartItems, user, items, product, alerted, lastClick>>

(* Cart.jsx:81, 90-93, 129-131, 146-151: getById of updateProductStock rejects *)
UpdateFetchFails(c) ==
    /\ pc[c] = "Decrementing"
    /\ UNCHANGED elsewhere
    /\ calls' = [calls EXCEPT ![c] =
          Append(@, Call("getById", "decrement", items[c][idx[c]].id, FALSE, 0))]
    /\ Fail(c, CaughtMessage(UpdateMessage(items[c][idx[c]])))
    /\ UNCHANGED <<stock, cartItems, user, items, idx, product, order,
                   alerted, lastClick>>

(* Cart.jsx:81: getById of updateProductStock resolves *)
UpdateFetch(c) ==
    /\ pc[c] = "Decrementing"
    /\ UNCHANGED elsewhere
    /\ LET id == items[c][idx[c]].id
       IN  /\ product' = [product EXCEPT ![c] = [id |-> id, stock |-> stock[id]]]
           /\ calls' = [calls EXCEPT ![c] =
                 Append(@, Call("getById", "decrement", id, TRUE, stock[id]))]
    /\ pc' = [pc EXCEPT ![c] = "Writing"]
    /\ UNCHANGED <<stock, cartItems, user, isCheckingOut, checkoutError,
                   items, idx, order, alerted, lastClick>>

(* Cart.jsx:84-87, 90-93, 129-131, 146-151: productService.update rejects *)
UpdateWriteFailsIgnored(c) ==
    /\ pc[c] = "Writing"
    /\ UNCHANGED elsewhere
    /\ HasNext(c)
    /\ calls' = [calls EXCEPT ![c] =
          Append(@, Call("update", "decrement", items[c][idx[c]].id, FALSE,
                         NewStock(CurrentStock(c), items[c][idx[c]].quantity)))]
    /\ idx' = [idx EXCEPT ![c] = @ + 1]
    /\ pc' = [pc EXCEPT ![c] = "Decrementing"]
    /\ UNCHANGED <<stock, cartItems, user, isCheckingOut, checkoutError, items,
                   product, order, alerted, lastClick>>

UpdateWriteFails(c) ==
    /\ pc[c] = "Writing"
    /\ UNCHANGED elsewhere
    /\ LET item == items[c][idx[c]]
       IN  /\ calls' = [calls EXCEPT ![c] =
                 Append(@, Call("update", "decrement", item.id, FALSE,
                                NewStock(CurrentStock(c), item.quantity)))]
           /\ Fail(c, CaughtMessage(UpdateMessage(item)))
    /\ UNCHANGED <<stock, cartItems, user, items, idx, product, order,
                   alerted, lastClick>>

(* Cart.jsx:84-89, 127-144, 149-151: productService.update resolves *)
UpdateWrite(c) ==
    /\ pc[c] = "Writing"
    /\ UNCHANGED elsewhere
    /\ LET item == items[c][idx[c]]
           written == NewStock(CurrentStock(c), item.quantity)
       IN  /\ stock' = [stock EXCEPT ![item.id] = written]
           /\ calls' = [calls EXCEPT ![c] =
                 Append(@, Call("update", "decrement", item.id, TRUE, written))]
    /\ IF HasNext(c)
       THEN /\ idx' = [idx EXCEPT ![c] = @ + 1]
            /\ pc' = [pc EXCEPT ![c] = "Decrementing"]
            /\ UNCHANGED <<cartItems, alerted, isCheckingOut>>
       ELSE /\ cartItems' = clearCart(c)
            /\ alerted' = [alerted EXCEPT ![c] = Confirmation(order[c])]
            /\ isCheckingOut' = [isCheckingOut EXCEPT ![c] = FALSE]
            /\ pc' = [pc EXCEPT ![c] = "Done"]
            /\ UNCHANGED idx
    /\ UNCHANGED <<user, checkoutError, items, product, order, lastClick>>

Next ==
    \E c \in Clients :
        \/ HandleCheckout(c)
        \/ ValidateFetchFails(c)
        \/ ValidateFetch(c)
        \/ UpdateFetchFails(c)
        \/ UpdateFetch(c)
        \/ UpdateWriteFails(c)
        \/ UpdateWrite(c)

Spec == Init /\ [][Next]_vars

SpecExample == InitExample /\ [][Next]_vars

(* mutant of Responds: an update call may stay without a response *)
RespondsToFetches(c) ==
    \/ ValidateFetchFails(c)
    \/ ValidateFetch(c)
    \/ UpdateFetchFails(c)
    \/ UpdateFetch(c)

(* Cart.jsx:67, 81, 84: the remote call the checkout of c awaits gets its  *)
(* response, a success or a failure                                        *)
Responds(c) ==
    \/ ValidateFetchFails(c)
    \/ ValidateFetch(c)
    \/ UpdateFetchFails(c)
    \/ UpdateFetch(c)
    \/ UpdateWriteFails(c)
    \/ UpdateWrite(c)

(* every remote call is answered in the end; nothing makes the user click *)
Responsive == \A c \in Clients : WF_vars(Responds(c))

(* as Init, with every product starting with the same stock and the cart  *)
(* of one line holding one unit                                             *)
InitResponsive ==
    /\ stock \in {[p \in Products |-> n] : n \in 0..MaxStock}
    /\ cartItems \in {f \in [Clients -> Carts(Cardinality(Products))] :
                         \A c \in Clients :
                             /\ Len(f[c]) <= MaxLines[c]
                             /\ MaxLines[c] = 1 =>
                                   \A i \in 1..Len(f[c]) : f[c][i].quantity = 1}
    /\ user \in Users
    /\ Mounted
    /\ FormMounted

SpecResponsive == InitResponsive /\ [][Next]_vars /\ Responsive

(* ------------------------ the registration form ----------------------- *)
(* A string is a sequence of characters (UTF-16 code units), a character   *)
(* a one-letter string; the line separator U+2028 stands for the line      *)
(* terminators, which a single-line input keeps apart from LF and CR.      *)
LineSeparator == "U+2028"

LowerLetters ==
    <<"a", "b", "c", "d", "e", "f", "g", "h", "i", "j", "k", "l", "m",
      "n", "o", "p", "q", "r", "s", "t", "u", "v", "w", "x", "y", "z">>
UpperLetters ==
    <<"A", "B", "C", "D", "E", "F", "G", "H", "I", "J", "K", "L", "M",
      "N", "O", "P", "Q", "R", "S", "T", "U", "V", "W", "X", "Y", "Z">>
LowerCase == {LowerLetters[i] : i \in 1..Len(LowerLetters)}
UpperCase == {UpperLetters[i] : i \in 1..Len(UpperLetters)}
Digits == {"0", "1", "2", "3", "4", "5", "6", "7", "8", "9"}

(* [a-z], [A-Z], \d *)
IsLower(ch) == ch \in LowerCase
IsUpper(ch) == ch \in UpperCase
IsDigit(ch) == ch \in Digits

(* [a-zA-Z0-9_] *)
IsWord(ch) == IsLower(ch) \/ IsUpper(ch) \/ IsDigit(ch) \/ ch = "_"

(* \s, of which the model has the space and the line separator; \S *)
IsSpace(ch) == ch \in {" ", LineSeparator}
NonSpace(ch) == ~IsSpace(ch)

(* the dot of a regular expression without the s flag: any character but a *)
(* line terminator                                                          *)
Dot(ch) == ch # LineSeparator

(* String.prototype.trim *)
RECURSIVE TrimStart(_)
TrimStart(s) ==
    IF s # <<>> /\ IsSpace(Head(s)) THEN TrimStart(Tail(s)) ELSE s

RECURSIVE TrimEnd(_)
TrimEnd(s) ==
    IF s # <<>> /\ IsSpace(s[Len(s)])
    THEN TrimEnd(SubSeq(s, 1, Len(s) - 1))
    ELSE s

trim(s) == TrimEnd(TrimStart(s))

(* String.prototype.toLowerCase on the characters of the model *)
toLowerCase(s) ==
    [i \in 1..Len(s) |->
        IF IsUpper(s[i])
        THEN LowerLetters[CHOOSE n \in 1..Len(UpperLetters) : UpperLetters[n] = s[i]]
        ELSE s[i]]

(* Register.jsx:46: /^[a-zA-Z0-9_]+$/ *)
UsernamePattern(s) == s # <<>> /\ \A i \in 1..Len(s) : IsWord(s[i])

(* Register.jsx:67: /\S+@\S+\.\S+/, found anywhere in s: an "@" at a, a    *)
(* "." at d, one non-space before the "@", at least one between the two    *)
(* and one after the "."                                                    *)
EmailPattern(s) ==
    \E a \in 2..Len(s), d \in 3..Len(s) :
        /\ s[a] = "@"
        /\ NonSpace(s[a - 1])
        /\ a + 1 < d
        /\ \A k \in (a + 1)..(d - 1) : NonSpace(s[k])
        /\ s[d] = "."
        /\ d < Len(s)
        /\ NonSpace(s[d + 1])

(* (?=.*[a-z]) and its like at position i of s: a character of the class   *)
(* at some j >= i with nothing but dot-matched characters before it        *)
Lookahead(s, i, IsClass(_)) ==
    \E j \in i..Len(s) :
        /\ IsClass(s[j])
        /\ \A k \in i..(j - 1) : Dot(s[k])

(* Register.jsx:77: /(?=.*[a-z])(?=.*[A-Z])(?=.*\d)/, tried at every        *)
(* position of s                                                            *)
PasswordPattern(s) ==
    \E i \in 1..(Len(s) + 1) :
        /\ Lookahead(s, i, IsLower)
        /\ Lookahead(s, i, IsUpper)
        /\ Lookahead(s, i, IsDigit)

(* Register.jsx:42-48 *)
nombreUsuarioError(fd) ==
    IF trim(fd.nombreUsuario) = <<>>
    THEN "El nombre de usuario es requerido"
    ELSE IF Len(trim(fd.nombreUsuario)) < 3
    THEN "El nombre de usuario debe tener al menos 3 caracteres"
    ELSE IF ~UsernamePattern(fd.nombreUsuario)
    THEN "Solo se permiten letras, numeros y guiones bajos"
    ELSE ""

(* Register.jsx:50-55 *)
nombreError(fd) ==
    IF trim(fd.nombre) = <<>>
    THEN "El nombre es requerido"
    ELSE IF Len(trim(fd.nombre)) < 2
    THEN "El nombre debe tener al menos 2 caracteres"
    ELSE ""

(* Register.jsx:57-62 *)
apellidoError(fd) ==
    IF trim(fd.apellido) = <<>>
    THEN "El apellido es requerido"
    ELSE IF Len(trim(fd.apellido)) < 2
    THEN "El apellido debe tener al menos 2 caracteres"
    ELSE ""

(* Register.jsx:64-69 *)
emailError(fd) ==
    IF fd.email = <<>>
    THEN "El email es requerido"
    ELSE IF ~EmailPattern(fd.email)
    THEN "El email no es valido"
    ELSE ""

(* Register.jsx:71-78 *)
passwordError(fd) ==
    IF fd.password = <<>>
    THEN "La contrasena es requerida"
    ELSE IF Len(fd.password) < 6
    THEN "La contrasena debe tener al menos 6 caracteres"
    ELSE IF ~PasswordPattern(fd.password)
    THEN "La contrasena debe contener al menos una minuscula, una mayuscula y un numero"
    ELSE ""

(* Register.jsx:80-85 *)
confirmPasswordError(fd) ==
    IF fd.confirmPassword = <<>>
    THEN "Confirma tu contrasena"
    ELSE IF fd.password # fd.confirmPassword
    THEN "Las contrasenas no coinciden"
    ELSE ""

(* Register.jsx:87-90 *)
termsError(terms) ==
    IF ~terms THEN "Debes aceptar los terminos y condiciones" ELSE ""

Fields == {"nombreUsuario", "nombre", "apellido", "email", "password",
           "confirmPassword", "terms"}

(* Register.jsx:39-92: newErrors, a key for every field whose check set a  *)
(* message                                                                  *)
validateForm(fd, terms) ==
    LET message == [k \in Fields |->
            CASE k = "nombreUsuario" -> nombreUsuarioError(fd)
              [] k = "nombre" -> nombreError(fd)
              [] k = "apellido" -> apellidoError(fd)
              [] k = "email" -> emailError(fd)
              [] k = "password" -> passwordError(fd)
              [] k = "confirmPassword" -> confirmPasswordError(fd)
              [] k = "terms" -> termsError(terms)]
    IN  [k \in {f \in Fields : message[f] # ""} |-> message[k]]

(* Register.jsx:130: [!@#$%^&*] *)
Symbols == {"!", "@", "#", "$", "%", "^", "&", "*"}
IsSymbol(ch) == ch \in Symbols

(* a regular expression of one character class, found anywhere in s *)
Test(s, IsClass(_)) == \E i \in 1..Len(s) : IsClass(s[i])

(* mutant of getPasswordStrength: the symbol is not looked for *)
getPasswordStrengthNoSymbol(password) ==
    IF password = <<>> THEN 0
    ELSE LET checks == <<Len(password) >= 6,
                         Test(password, IsLower),
                         Test(password, IsUpper),
                         Test(password, IsDigit)>>
         IN  Len(SelectSeq(checks, LAMBDA b : b))

(* Register.jsx:120-133: the strength of the password, the number of       *)
(* checks that are true                                                    *)
getPasswordStrength(password) ==
    IF password = <<>> THEN 0
    ELSE LET checks == <<Len(password) >= 6,
                         Test(password, IsLower),
                         Test(password, IsUpper),
                         Test(password, IsDigit),
                         Test(password, IsSymbol)>>
         IN  Len(SelectSeq(checks, LAMBDA b : b))

(* Register.jsx:105-111 *)
UserData(fd) ==
    [nombreUsuario |-> trim(fd.nombreUsuario),
     nombre |-> trim(fd.nombre),
     apellido |-> trim(fd.apellido),
     email |-> toLowerCase(fd.email),
     password |-> fd.password]

(* Register.jsx:97-114: the form is submitted; setErrors(newErrors), and   *)
(* register(userData) when newErrors has no key. One submit is followed.   *)
HandleSubmit ==
    /\ errors = NoErrors
    /\ registered = Null
    /\ LET newErrors == validateForm(formData, acceptTerms)
       IN  /\ errors' = newErrors
           /\ registered' = IF DOMAIN newErrors = {}
                             THEN UserData(formData)
                             ELSE Null
    /\ UNCHANGED <<formData, acceptTerms, checkoutVars, change>>

(* the longest password the form is filled with, all of them taken *)
MaxPasswordLen == 6

(* the characters such a password is made of: one of each class of the     *)
(* validators and a line separator                                         *)
PasswordChars == {"a", "A", "1", "!", LineSeparator}

RECURSIVE StringsOf(_, _)
StringsOf(chars, n) ==
    IF n = 0 THEN {<<>>}
    ELSE LET shorter == StringsOf(chars, n - 1)
         IN  shorter \cup {Append(s, ch) : s \in {t \in shorter : Len(t) = n - 1},
                                            ch \in chars}

Passwords ==
    StringsOf(PasswordChars, MaxPasswordLen)
        \cup {<<"A", "b", "c", "d", "e", "f", "1">>,
              <<"a", "b", "c", "d", "e", "f", "1">>,
              <<"A", "b", "c", "1", "2">>}

(* values the other fields are filled with *)
Usernames == {<<>>, <<" ">>, <<"a", "b">>, <<"a", "b", "_">>, <<"a", "b", " ">>,
              <<"a", "b", "!">>, <<" ", "a", "b", "1">>}
Names == {<<>>, <<" ", " ">>, <<"a">>, <<"a", " ">>, <<"A", "b">>}
Emails == {<<>>, <<"a", "@", "b">>, <<"a", "@", "b", ".", "c">>,
           <<"@", "b", ".", "c">>, <<"a", " ", "@", "b", ".", "c">>,
           <<" ", "A", "@", "b", ".", "c", " ">>}
SamplePasswords == {<<>>, <<"A", "b", "c", "1", "2">>,
                    <<"a", "b", "c", "d", "e", "f", "1">>,
                    <<"A", "b", "c", "d", "e", "f", "1">>,
                    <<"a", "b", "c", LineSeparator, "A", "1">>}
Confirmations == {<<>>, <<"A", "b", "c", "d", "e", "f", "1">>,
                  <<"a", "b", "c", LineSeparator, "A", "1">>}

(* a form filled in every way with the sample values, or filled well with  *)
(* any password, repeated in the confirmation                              *)
InitForm ==
    /\ stock = [p \in Products |-> 0]
    /\ cartItems = [c \in Clients |-> <<>>]
    /\ user = Null
    /\ Mounted
    /\ errors = NoErrors
    /\ registered = Null
    /\ \/ /\ formData \in [nombreUsuario : Usernames, nombre : Names,
                             apellido : Names, email : Emails,
                             password : SamplePasswords,
                             confirmPassword : Confirmations]
          /\ acceptTerms \in BOOLEAN
       \/ /\ \E pw \in Passwords :
                formData = [nombreUsuario |-> <<"a", "b", "_">>,
                            nombre |-> <<"A", "b">>, apellido |-> <<"A", "b">>,
                            email |-> <<"a", "@", "b", ".", "c">>,
                            password |-> pw, confirmPassword |-> pw]
          /\ acceptTerms = TRUE

NextForm == HandleSubmit

SpecForm == InitForm /\ [][NextForm]_vars

(* ------------------- the cart controls of the page --------------------- *)
(* the client whose cart controls are exercised; the other tab keeps an    *)
(* empty cart and stays out of it                                          *)
Editors == {"a"}

(* CartContext.updateQuantity: sets the quantity of the line of product id; *)
(* the store itself does not look at the value (spec, section 3)           *)
updateQuantity(ls, id, q) ==
    [i \in 1..Len(ls) |->
        IF ls[i].id = id THEN [ls[i] EXCEPT !.quantity = q] ELSE ls[i]]

(* CartContext.removeFromCart: deletes the line of product id if present *)
removeFromCart(ls, id) == SelectSeq(ls, LAMBDA l : l.id # id)

(* CartContext.addToCart: inserts a line or increments the one present *)
addToCart(ls, p, q) ==
    IF \E i \in 1..Len(ls) : ls[i].id = p
    THEN [i \in 1..Len(ls) |->
            IF ls[i].id = p
            THEN [ls[i] EXCEPT !.quantity = ls[i].quantity + q]
            ELSE ls[i]]
    ELSE Append(ls, Line(p, q))

(* what the last handleQuantityChange(itemId, newQuantity) of a client came *)
(* to: "ignored" (line 32), "fetching" (awaiting getById, line 39),         *)
(* "rejected" (alert of line 41), "updated" (line 45) or "failed" (alert of  *)
(* line 48)                                                                 *)
Change(id, q, st) == [id |-> id, q |-> q, st |-> st]

Fetching(c) == change[c] # Null /\ change[c].st = "fetching"

(* mutant of TooSmall: a quantity of 0 is let through *)
TooSmallBelowZero(newQuantity) == newQuantity < 0

TooSmall(newQuantity) == newQuantity < 1

(* mutant of ExceedsStock: the last unit in stock cannot be taken *)
ExceedsStockInclusive(newQuantity, productStock) == newQuantity >= productStock

ExceedsStock(newQuantity, productStock) == newQuantity > productStock

(* what a cart control leaves alone *)
editFrame == <<stock, user, isCheckingOut, checkoutError, pc, items, idx,
               product, order, alerted, calls, lastClick, formVars>>

(* a click on the minus or the plus of a rendered line, up to the await;   *)
(* one handleQuantityChange per client is followed at a time               *)
HandleQuantityChange(c) ==
    /\ ~Fetching(c)
    /\ \E i \in 1..Len(cartItems[c]), d \in {-1, 1} :
          LET itemId == cartItems[c][i].id
              newQuantity == cartItems[c][i].quantity + d
          IN  change' = [change EXCEPT ![c] =
                  IF TooSmall(newQuantity)
                  THEN Change(itemId, newQuantity, "ignored")
                  ELSE Change(itemId, newQuantity, "fetching")]
    /\ UNCHANGED <<cartItems, editFrame>>

(* getById rejects *)
QuantityFetchFails(c) ==
    /\ Fetching(c)
    /\ change' = [change EXCEPT ![c].st = "failed"]
    /\ UNCHANGED <<cartItems, editFrame>>

(* getById resolves with the product as the service holds it now *)
QuantityFetch(c) ==
    /\ Fetching(c)
    /\ LET itemId == change[c].id
           newQuantity == change[c].q
       IN  IF ExceedsStock(newQuantity, stock[itemId])
           THEN /\ change' = [change EXCEPT ![c] =
                       Change(itemId, newQuantity, "rejected")]
                /\ UNCHANGED cartItems
           ELSE /\ cartItems' = [cartItems EXCEPT ![c] =
                       updateQuantity(cartItems[c], itemId, newQuantity)]
                /\ change' = [change EXCEPT ![c] =
                       Change(itemId, newQuantity, "updated")]
    /\ UNCHANGED editFrame

(* the trash button of a rendered line, the confirm dialog accepted *)
HandleRemoveItem(c) ==
    /\ \E i \in 1..Len(cartItems[c]) :
          cartItems' = [cartItems EXCEPT ![c] =
                           removeFromCart(cartItems[c], cartItems[c][i].id)]
    /\ UNCHANGED <<change, editFrame>>

(* the "Vaciar carrito" button, shown with a cart that has lines, the       *)
(* confirm dialog accepted                                                  *)
HandleClearCart(c) ==
    /\ cartItems[c] # <<>>
    /\ cartItems' = clearCart(c)
    /\ UNCHANGED <<change, editFrame>>

(* the Cart page of client c is mounted anew: its own state starts over *)
Remount(c) ==
    /\ isCheckingOut' = [isCheckingOut EXCEPT ![c] = FALSE]
    /\ checkoutError' = [checkoutError EXCEPT ![c] = Null]
    /\ pc' = [pc EXCEPT ![c] = "Idle"]
    /\ items' = [items EXCEPT ![c] = <<>>]
    /\ idx' = [idx EXCEPT ![c] = 0]
    /\ product' = [product EXCEPT ![c] = Null]
    /\ order' = [order EXCEPT ![c] = Null]
    /\ alerted' = [alerted EXCEPT ![c] = Null]
    /\ calls' = [calls EXCEPT ![c] = <<>>]
    /\ lastClick' = [lastClick EXCEPT ![c] = "none"]
    /\ change' = [change EXCEPT ![c] = Null]

(* one unit of a product is added on a product page and the client comes   *)
(* back to the cart; the client leaves the cart page only when nothing is  *)
(* pending there, and no line is taken beyond MaxQty this way              *)
AddToCart(c) ==
    /\ pc[c] \notin InFlight
    /\ ~Fetching(c)
    /\ \E p \in Products :
          /\ \A i \in 1..Len(cartItems[c]) :
                cartItems[c][i].id = p => cartItems[c][i].quantity < MaxQty
          /\ cartItems' = [cartItems EXCEPT ![c] = addToCart(cartItems[c], p, 1)]
    /\ Remount(c)
    /\ UNCHANGED <<stock, user, formVars>>

InitEdit ==
    /\ stock \in [Products -> 0..MaxStock]
    /\ \E ls \in Carts(Cardinality(Products)) :
          cartItems = [c \in Clients |-> IF c \in Editors THEN ls ELSE <<>>]
    /\ user \in Users \ {Null}
    /\ Mounted
    /\ FormMounted

NextEdit ==
    \E c \in Editors :
        \/ HandleCheckout(c)
        \/ ValidateFetchFails(c)
        \/ ValidateFetch(c)
        \/ UpdateFetchFails(c)
        \/ UpdateFetch(c)
        \/ UpdateWriteFails(c)
        \/ UpdateWrite(c)
        \/ HandleQuantityChange(c)
        \/ QuantityFetchFails(c)
        \/ QuantityFetch(c)
        \/ HandleRemoveItem(c)
        \/ HandleClearCart(c)
        \/ AddToCart(c)

SpecEdit == InitEdit /\ [][NextEdit]_vars

(* --------------------------- reading the log -------------------------- *)
ValidateCalls(c) == SelectSeq(calls[c], LAMBDA k : k.phase = "validate")
DecrementCalls(c) == SelectSeq(calls[c], LAMBDA k : k.phase = "decrement")
UpdateCalls(c) == SelectSeq(calls[c], LAMBDA k : k.op = "update")
AppliedUpdates(c) == SelectSeq(calls[c], LAMBDA k : k.op = "update" /\ k.ok)

Ended(c) == pc[c] \in {"Done", "Failed"}
Other(c) == CHOOSE d \in Clients : d # c

(* validation met line i of the checkout of c with less stock than requested *)
MetInsufficient(c, i) ==
    /\ i <= Len(calls[c])
    /\ calls[c][i].phase = "validate"
    /\ calls[c][i].ok
    /\ calls[c][i].stock < items[c][i].quantity

(* every line of the checkout of c was fetched and passed validation *)
AllValidated(c) ==
    /\ items[c] # <<>>
    /\ Len(ValidateCalls(c)) = Len(items[c])
    /\ \A i \in 1..Len(items[c]) :
          /\ ValidateCalls(c)[i].ok
          /\ ValidateCalls(c)[i].stock >= items[c][i].quantity

AllOk(log) == \A i \in 1..Len(log) : log[i].ok
AllCallsOk(c) == AllOk(calls[c])

(* one successful updateProduct call per line of the checkout, in line order *)
OneUpdatePerLine(c) ==
    /\ Len(UpdateCalls(c)) = Len(items[c])
    /\ \A i \in 1..Len(items[c]) :
          /\ UpdateCalls(c)[i].id = items[c][i].id
          /\ UpdateCalls(c)[i].ok

(* the quantity the checkout of c requests of product p (0 when no line) *)
Qty(c, p) ==
    IF \E i \in 1..Len(items[c]) : items[c][i].id = p
    THEN items[c][CHOOSE i \in 1..Len(items[c]) : items[c][i].id = p].quantity
    ELSE 0

(* call j of the checkout of c is an updateProduct call *)
IsUpdate(c, j) == j \in 1..Len(calls[c]) /\ calls[c][j].op = "update"

(* updateProduct call j of c follows a re-fetch that returned less stock    *)
(* than the line requests                                                   *)
Clamped(c, j) ==
    /\ IsUpdate(c, j)
    /\ j > 1
    /\ calls[c][j - 1].stock < Qty(c, calls[c][j].id)

(* a call of the decrement of line k of the checkout of c (the re-fetch or *)
(* the write) failed                                                       *)
DecrementFailedAt(c, k) ==
    \E j \in 1..Len(calls[c]) :
        /\ calls[c][j].phase = "decrement"
        /\ ~calls[c][j].ok
        /\ calls[c][j].id = items[c][k].id

(* the validations of c and d, which every line passed, read the same      *)
(* stock for product p, and c and d together request more of p than that   *)
OversoldTogether(c, d, p) ==
    \E i \in 1..Len(items[c]) : \E j \in 1..Len(items[d]) :
        /\ items[c][i].id = p
        /\ items[d][j].id = p
        /\ ValidateCalls(c)[i].stock = ValidateCalls(d)[j].stock
        /\ items[c][i].quantity + items[d][j].quantity > ValidateCalls(c)[i].stock

(* Cart.jsx:196 *)
FreeShippingAbove == 50000
ShippingFee == 5000

(* mutant of Shipping: free from the threshold on *)
ShippingFreeAtThreshold(subtotal) ==
    IF subtotal >= FreeShippingAbove THEN 0 ELSE ShippingFee

Shipping(subtotal) == IF subtotal > FreeShippingAbove THEN 0 ELSE ShippingFee

(* Cart.jsx:195-197: the order summary the page renders for a cart with lines *)
Summary(c) ==
    LET subtotal == getCartTotal(cartItems[c])
        shipping == Shipping(subtotal)
    IN  [subtotal |-> subtotal, shipping |-> shipping,
         total |-> subtotal + shipping]

(* ------------------------------- claims ------------------------------- *)

(* C1: a checkout whose validation fetched, for some line, a stock smaller *)
(* than the requested quantity is in Failed, its Cart Store still holds    *)
(* the lines it held when the checkout started, and the checkout has       *)
(* issued no updateProduct call (nor any other call of the decrement       *)
(* phase).                                                                 *)
C1_InsufficientStockFails ==
    \A c \in Clients : \A i \in 1..Len(items[c]) :
        MetInsufficient(c, i) =>
            /\ pc[c] = "Failed"
            /\ cartItems[c] = items[c]
            /\ UpdateCalls(c) = <<>>
            /\ DecrementCalls(c) = <<>>

(* C1 witness: a checkout failed at its second line for lack of stock *)
C1_Witness ==
    \E c \in Clients : MetInsufficient(c, 2) /\ pc[c] = "Failed"

(* C2 as stated: a checkout that has ended, in which every line passed     *)
(* validation and no remote call failed, issued one updateProduct call per *)
(* line in line order and cleared the cart.                                *)
C2_Original ==
    \A c \in Clients :
        (Ended(c) /\ AllValidated(c) /\ AllCallsOk(c)) =>
            /\ OneUpdatePerLine(c)
            /\ cartItems[c] = <<>>

(* C2 amended: with an authenticated user, a checkout that has ended, in   *)
(* which every line passed validation and no remote call failed, is Done,  *)
(* has issued exactly one updateProduct call per line in line order, and   *)
(* has cleared the cart; the updateProduct calls are issued in line order  *)
(* at every moment; and the Cart Store differs from the lines the checkout *)
(* started with only once it is Done with every decrement applied.         *)
C2_OneDecrementPerLineThenClear ==
    \A c \in Clients :
        /\ (user # Null /\ Ended(c) /\ AllValidated(c) /\ AllCallsOk(c)) =>
              /\ pc[c] = "Done"
              /\ OneUpdatePerLine(c)
              /\ cartItems[c] = <<>>
        /\ Len(UpdateCalls(c)) <= Len(items[c])
        /\ \A i \in 1..Len(UpdateCalls(c)) : UpdateCalls(c)[i].id = items[c][i].id
        /\ (items[c] # <<>> /\ cartItems[c] # items[c]) =>
              /\ pc[c] = "Done"
              /\ cartItems[c] = <<>>
              /\ Len(AppliedUpdates(c)) = Len(items[c])

(* C2 witness: a checkout of two lines is Done *)
C2_Witness ==
    \E c \in Clients : pc[c] = "Done" /\ Len(items[c]) = 2 /\ AllCallsOk(c)

(* C3: when a call of the decrement of line k of the checkout of c has     *)
(* failed, the checkout is Failed and that call is its last; the           *)
(* successful updateProduct calls it issued are exactly those of lines     *)
(* 1..k-1, in order; it issued no other write (no compensating call)       *)
(* beyond the failed write of line k, and no call for a line after k; its  *)
(* Cart Store is non-empty and equal to the lines it started with; and,    *)
(* when no other client has run a checkout, the remote stock of lines      *)
(* 1..k-1 still holds the decremented values.                              *)
C3_PartialDecrementKept ==
    \A c \in Clients : \A k \in 1..Len(items[c]) :
        DecrementFailedAt(c, k) =>
            /\ pc[c] = "Failed"
            /\ ~calls[c][Len(calls[c])].ok
            /\ calls[c][Len(calls[c])].id = items[c][k].id
            /\ AllOk(SubSeq(calls[c], 1, Len(calls[c]) - 1))
            /\ Len(AppliedUpdates(c)) = k - 1
            /\ \A i \in 1..(k - 1) : AppliedUpdates(c)[i].id = items[c][i].id
            /\ Len(UpdateCalls(c)) \in {k - 1, k}
            /\ \A j \in 1..Len(DecrementCalls(c)) :
                  \E i \in 1..k : DecrementCalls(c)[j].id = items[c][i].id
            /\ cartItems[c] # <<>>
            /\ cartItems[c] = items[c]
            /\ items[Other(c)] = <<>> =>
                  \A i \in 1..(k - 1) :
                      stock[items[c][i].id] = AppliedUpdates(c)[i].stock

(* C3 witness: the decrement of the second line failed after the first     *)
(* line's stock was lowered                                                *)
C3_Witness ==
    \E c \in Clients :
        /\ Len(items[c]) = 2
        /\ DecrementFailedAt(c, 2)
        /\ Len(AppliedUpdates(c)) = 1
        /\ AppliedUpdates(c)[1].stock < calls[c][1].stock

(* C4: every updateProduct call writes max(0, s - q), where s is the stock *)
(* returned by the successful getById issued just before it in the         *)
(* decrement phase for the same product and q the line's quantity.         *)
C4_WritesFromRefetch ==
    \A c \in Clients : \A j \in 1..Len(calls[c]) :
        IsUpdate(c, j) =>
            /\ j > 1
            /\ calls[c][j - 1].op = "getById"
            /\ calls[c][j - 1].phase = "decrement"
            /\ calls[c][j - 1].ok
            /\ calls[c][j - 1].id = calls[c][j].id
            /\ calls[c][j].stock =
                  Max(0, calls[c][j - 1].stock - Qty(c, calls[c][j].id))

(* C4 witness: a successful write whose re-fetch returned another stock    *)
(* than validation had read for that line                                  *)
C4_Witness ==
    \E c \in Clients : \E j \in 1..Len(calls[c]) :
        /\ IsUpdate(c, j)
        /\ calls[c][j].ok
        /\ \E i \in 1..Len(ValidateCalls(c)) :
              /\ ValidateCalls(c)[i].id = calls[c][j].id
              /\ ValidateCalls(c)[i].stock # calls[c][j - 1].stock

(* C5: when the checkouts of two clients validated the same product        *)
(* against the same stock s, request more than s together, and have ended  *)
(* with every line validated, every remote call successful and a user      *)
(* present, both are Done (neither was rejected) and every write that      *)
(* started from less stock than requested wrote 0.                         *)
C5_BothPassThenClamp ==
    \A c \in Clients : \A d \in Clients \ {c} :
        ( /\ user # Null
          /\ Ended(c) /\ AllValidated(c) /\ AllCallsOk(c)
          /\ Ended(d) /\ AllValidated(d) /\ AllCallsOk(d)
          /\ \E p \in Products : OversoldTogether(c, d, p) )
        => /\ pc[c] = "Done" /\ pc[d] = "Done"
           /\ \A j \in 1..Len(calls[c]) :
                 Clamped(c, j) => calls[c][j].stock = 0

(* C5 witness: the interleaving exists: both validated product p against   *)
(* the same stock, together they request more than it, both are Done and   *)
(* the stock of p was clamped to zero                                      *)
C5_Witness ==
    \E p \in Products : \E c \in Clients : \E d \in Clients \ {c} :
        /\ pc[c] = "Done" /\ pc[d] = "Done"
        /\ OversoldTogether(c, d, p)
        /\ \E j \in 1..Len(calls[c]) : Clamped(c, j) /\ calls[c][j].id = p
        /\ stock[p] = 0

(* C6: the stock of every remote product is an integer >= 0 in every       *)
(* reachable state.                                                        *)
C6_StockNonNegative == \A p \in Products : stock[p] \in Nat

(* C6 witness: a write that started from less stock than requested has     *)
(* just been applied while another checkout is in flight                   *)
C6_Witness ==
    \E c \in Clients :
        /\ Clamped(c, Len(calls[c]))
        /\ calls[c][Len(calls[c])].ok
        /\ pc[Other(c)] \in InFlight

(* C7: a checkout that is Failed has a non-empty message in                *)
(* checkoutError, its Cart Store equals the lines it started with and its  *)
(* handler has returned (isCheckingOut is false again); and every cause of *)
(* failure (a failed remote call, a line with too little stock) leaves the *)
(* checkout in Failed.                                                     *)
C7_FailedKeepsMessageAndCart ==
    \A c \in Clients :
        /\ pc[c] = "Failed" =>
              /\ checkoutError[c] # Null
              /\ checkoutError[c] # <<"">>
              /\ cartItems[c] = items[c]
              /\ ~isCheckingOut[c]
        /\ ~AllCallsOk(c) => pc[c] = "Failed"
        /\ (\E i \in 1..Len(items[c]) : MetInsufficient(c, i)) => pc[c] = "Failed"

(* C7 witness: one checkout failed on a decrement, the other on a fetch of *)
(* its validation                                                          *)
C7_Witness ==
    \E c \in Clients :
        /\ pc[c] = "Failed"
        /\ \E k \in 1..Len(items[c]) : DecrementFailedAt(c, k)
        /\ pc[Other(c)] = "Failed"
        /\ ~calls[Other(c)][Len(calls[Other(c)])].ok
        /\ calls[Other(c)][Len(calls[Other(c)])].phase = "validate"

(* C8: while the cart of a client is empty and no checkout of it is in     *)
(* flight, no step (in particular no checkout request) changes its         *)
(* orchestrator state, its in-progress flag, its checkout error, its cart, *)
(* the calls it has issued or the remote stock on its behalf.              *)
C8_EmptyCartIgnored ==
    [][\A c \in Clients :
          (cartItems[c] = <<>> /\ pc[c] \notin InFlight) =>
              /\ pc'[c] = pc[c]
              /\ isCheckingOut'[c] = isCheckingOut[c]
              /\ checkoutError'[c] = checkoutError[c]
              /\ calls'[c] = calls[c]
              /\ cartItems'[c] = <<>>
              /\ lastClick'[c] \in {lastClick[c], "ignored"}]_vars

(* C8 witness: a checkout request on an empty cart was made in Idle *)
C8_Witness ==
    \E c \in Clients :
        lastClick[c] = "ignored" /\ pc[c] = "Idle" /\ cartItems[c] = <<>>

(* C9: the calls of validation are the first calls of a checkout and fetch *)
(* its lines in line order; every line before the last one fetched passed; *)
(* and when the last line fetched has less stock than requested, no        *)
(* further call is issued and checkoutError names that line's product and  *)
(* the stock fetched for it.                                               *)
C9_ValidationShortCircuits ==
    \A c \in Clients :
        LET v == ValidateCalls(c)
            k == Len(v)
        IN  /\ k <= Len(items[c])
            /\ \A i \in 1..k : calls[c][i] = v[i] /\ v[i].id = items[c][i].id
            /\ \A i \in 1..(k - 1) : v[i].ok /\ v[i].stock >= items[c][i].quantity
            /\ (k >= 1 /\ MetInsufficient(c, k)) =>
                  /\ Len(calls[c]) = k
                  /\ checkoutError[c] =
                        <<"No hay suficiente stock de", items[c][k].id,
                          "Stock disponible", v[k].stock>>

(* C9 witness: both lines of a cart lack stock, validation stopped at the  *)
(* first one                                                               *)
C9_Witness ==
    \E c \in Clients :
        /\ Len(items[c]) = 2
        /\ MetInsufficient(c, 1)
        /\ Len(calls[c]) = 1
        /\ 0 < calls[c][1].stock
        /\ stock[items[c][2].id] < items[c][2].quantity

(* C10 as stated: a checkout of the cart [{id 1, price 10000, quantity 2}] *)
(* that validated against stock 5, with no other checkout around, is Done  *)
(* having written stock 3 and confirmed a total of 25000; and every        *)
(* checkout that is Done confirmed subtotal + shipping.                    *)
C10_ConfirmedTotalWithShipping ==
    \A c \in Clients :
        /\ ( /\ Ended(c)
             /\ user # Null
             /\ items[c] = <<[id |-> 1, precio |-> 10000, quantity |-> 2]>>
             /\ items[Other(c)] = <<>>
             /\ AllCallsOk(c)
             /\ calls[c][1].stock = 5 )
           => /\ pc[c] = "Done"
              /\ UpdateCalls(c) = <<Call("update", "decrement", 1, TRUE, 3)>>
              /\ stock[1] = 3
              /\ alerted[c][3] = formatPrice(25000)
        /\ pc[c] = "Done" =>
              alerted[c][3] =
                 formatPrice(SumSubtotals(items[c]) + Shipping(SumSubtotals(items[c])))

(* the sum of unit price times quantity over the first n lines of ls *)
RECURSIVE LineSum(_, _)
LineSum(ls, n) ==
    IF n = 0 THEN 0 ELSE LineSum(ls, n - 1) + ls[n].precio * ls[n].quantity

(* C11: for every cart with lines the summary charges 0 for shipping when  *)
(* the subtotal is above 50000 and 5000 otherwise, a subtotal of exactly   *)
(* 50000 included, and its total is the subtotal plus the shipping.        *)
C11_ShippingThreshold ==
    \A c \in Clients :
        cartItems[c] # <<>> =>
            LET s == LineSum(cartItems[c], Len(cartItems[c]))
                shown == Summary(c)
            IN  /\ s > 50000 => shown.shipping = 0
                /\ s <= 50000 => shown.shipping = 5000
                /\ shown.total = s + shown.shipping

(* one rendered cart is worth exactly 50000 and pays, another 60000 and    *)
(* does not                                                                *)
C11_Witness ==
    /\ LineSum(cartItems["a"], Len(cartItems["a"])) = 50000
    /\ Summary("a").total = 55000
    /\ LineSum(cartItems["b"], Len(cartItems["b"])) = 60000
    /\ Summary("b").total = 60000

(* the sum of the subtotal fields of the first n line snapshots of an order *)
RECURSIVE SnapshotSum(_, _)
SnapshotSum(snapshots, n) ==
    IF n = 0 THEN 0 ELSE SnapshotSum(snapshots, n - 1) + snapshots[n].subtotal

(* C12: the total of the Cart Store is the sum over its lines of unit      *)
(* price times quantity, and the total of a created order is the sum of    *)
(* the subtotals of its line snapshots.                                    *)
C12_TotalsAreSums ==
    \A c \in Clients :
        /\ getCartTotal(cartItems[c]) = LineSum(cartItems[c], Len(cartItems[c]))
        /\ order[c] # Null =>
              order[c].total = SnapshotSum(order[c].items, Len(order[c].items))

(* an order of two lines, one of them with quantity 2, was created *)
C12_Witness ==
    \E c \in Clients :
        /\ order[c] # Null
        /\ Len(order[c].items) = 2
        /\ order[c].items[1].quantity = 2
        /\ order[c].items[1].subtotal = 2 * order[c].items[1].precio
        /\ order[c].total = order[c].items[1].subtotal + order[c].items[2].subtotal

(* the step in which the getById of a quantity change of c comes back *)
QuantityAnswered(c) ==
    /\ change[c] # Null
    /\ change[c].st = "fetching"
    /\ change'[c].st # "fetching"

(* C13: when the fetch of a quantity change to q comes back, a q above the *)
(* stock just fetched is rejected and leaves the cart as it was; a q with  *)
(* 1 <= q <= stock becomes the quantity of that line and every other line  *)
(* stays as it was.                                                        *)
C13_QuantityChangeChecksStock ==
    [][\A c \in Clients :
          QuantityAnswered(c) =>
                LET id == change[c].id
                    q == change[c].q
                IN  /\ q > stock[id] =>
                          /\ change'[c].st \in {"rejected", "failed"}
                          /\ cartItems'[c] = cartItems[c]
                    /\ (1 <= q /\ q <= stock[id] /\ change'[c].st # "failed") =>
                          /\ change'[c].st = "updated"
                          /\ Len(cartItems'[c]) = Len(cartItems[c])
                          /\ \A i \in 1..Len(cartItems[c]) :
                                IF cartItems[c][i].id = id
                                THEN cartItems'[c][i] =
                                       [id |-> id,
                                        precio |-> cartItems[c][i].precio,
                                        quantity |-> q]
                                ELSE cartItems'[c][i] = cartItems[c][i] ]_vars

(* the second of two lines took the last units in stock, the first line    *)
(* was left alone                                                          *)
C13_Witness ==
    \E c \in Clients :
        /\ change[c] # Null
        /\ change[c].st = "updated"
        /\ Len(cartItems[c]) = 2
        /\ cartItems[c][2].id = change[c].id
        /\ cartItems[c][2].quantity = change[c].q
        /\ stock[change[c].id] = change[c].q
        /\ pc[c] = "Idle"

(* C14: whatever cart operations were done, no two lines of a cart are of  *)
(* the same product and every line has a quantity of at least 1.           *)
C14_CartWellFormed ==
    \A c \in Clients :
        /\ \A i, j \in 1..Len(cartItems[c]) :
              cartItems[c][i].id = cartItems[c][j].id => i = j
        /\ \A i \in 1..Len(cartItems[c]) : cartItems[c][i].quantity >= 1

(* a cart of two lines after a failed checkout and an accepted quantity    *)
(* change down to 1                                                        *)
C14_Witness ==
    \E c \in Clients :
        /\ pc[c] = "Failed"
        /\ change[c] # Null
        /\ change[c].st = "updated"
        /\ change[c].q = 1
        /\ Len(cartItems[c]) = 2
        /\ \E i \in 1..2 : /\ cartItems[c][i].id = change[c].id
                            /\ cartItems[c][i].quantity = 1

(* C15: a quantity change to less than 1 changes no cart and no stock and  *)
(* is not followed by a fetch.                                             *)
C15_BelowOneIgnored ==
    [][\A c \in Clients :
          (change'[c] # change[c] /\ change'[c] # Null /\ change'[c].q < 1) =>
              /\ change'[c].st = "ignored"
              /\ cartItems' = cartItems
              /\ stock' = stock]_vars

(* the minus of a line of quantity 1 was used and the line is still there  *)
C15_Witness ==
    \E c \in Clients :
        /\ change[c] # Null
        /\ change[c].st = "ignored"
        /\ change[c].q = 0
        /\ \E i \in 1..Len(cartItems[c]) :
              /\ cartItems[c][i].id = change[c].id
              /\ cartItems[c][i].quantity = 1

(* C16: while a checkout of a client is in flight the in-progress flag is *)
(* up and the checkout trigger of that client cannot act: no second        *)
(* checkout of the client starts before the first is Done or Failed.       *)
C16_OneCheckoutInFlight ==
    \A c \in Clients :
        pc[c] \in InFlight =>
            /\ isCheckingOut[c]
            /\ ~ENABLED HandleCheckout(c)

(* both clients are in the middle of a checkout, one validating and one    *)
(* between the fetch and the write of a decrement                          *)
C16_Witness ==
    /\ pc["a"] = "Writing"
    /\ pc["b"] = "Validating"
    /\ isCheckingOut["a"]
    /\ isCheckingOut["b"]

(* the step in which a checkout request of c is taken up *)
CheckoutStarts(c) ==
    /\ pc[c] \notin InFlight
    /\ pc'[c] \in InFlight

(* C17 as stated: a checkout that was started after a failed one and ended *)
(* with every line validated and no remote call failed is Done.            *)
C17_Original ==
    \A c \in Clients :
        (lastClick[c] = "retried" /\ Ended(c) /\ AllValidated(c) /\ AllCallsOk(c))
            => pc[c] = "Done"

(* a retry by an authenticated user that ended with every line validated   *)
(* and no remote call failed is Done                                       *)
RetryEndsDone ==
    \A c \in Clients :
        ( /\ lastClick[c] = "retried"
          /\ user # Null
          /\ Ended(c)
          /\ AllValidated(c)
          /\ AllCallsOk(c) )
            => /\ pc[c] = "Done"
               /\ checkoutError[c] = Null
               /\ cartItems[c] = <<>>

(* C17: a checkout that is Done or Failed takes no further step of its     *)
(* own; a new request starts over, with no error message, at the first     *)
(* line of the cart as it is then and with no call issued yet; and a       *)
(* retry by an authenticated user that ends with every line validated and  *)
(* no remote call failed is Done.                                          *)
C17_RestartAndRetry ==
    [][\A c \in Clients :
          /\ RetryEndsDone'
          /\ (pc[c] \in {"Done", "Failed"} /\ pc'[c] # pc[c]) =>
                CheckoutStarts(c)
          /\ CheckoutStarts(c) =>
                /\ pc'[c] = "Validating"
                /\ checkoutError'[c] = Null
                /\ idx'[c] = 1
                /\ items'[c] = cartItems[c]
                /\ calls'[c] = <<>>
                /\ isCheckingOut'[c] ]_vars

(* a retry of a cart of two lines is Done *)
C17_Witness ==
    \E c \in Clients :
        /\ lastClick[c] = "retried"
        /\ pc[c] = "Done"
        /\ Len(items[c]) = 2
        /\ Len(calls[c]) = 6

(* the form was submitted: validateForm has set the error map *)
Submitted == errors # NoErrors \/ registered # Null

Has(s, IsClass(_)) == \E i \in 1..Len(s) : IsClass(s[i])

(* C19 as stated: the password of a submitted form is accepted (gets no    *)
(* entry in the error map) exactly when it is not empty, has at least 6    *)
(* characters and contains a lowercase letter, an uppercase letter and a   *)
(* digit; "Abcdef1" is accepted, "abcdef1" and "Abc12" are not.            *)
C19_PasswordAccepted ==
    Submitted =>
        LET pw == formData.password
            accepted == "password" \notin DOMAIN errors
        IN  /\ accepted <=> ( /\ pw # <<>>
                              /\ Len(pw) >= 6
                              /\ Has(pw, IsLower)
                              /\ Has(pw, IsUpper)
                              /\ Has(pw, IsDigit) )
            /\ pw = <<"A", "b", "c", "d", "e", "f", "1">> => accepted
            /\ pw = <<"a", "b", "c", "d", "e", "f", "1">> => ~accepted
            /\ pw = <<"A", "b", "c", "1", "2">> => ~accepted

(* the rules of the fields as the specification gives them (section 4.4)  *)
SpaceFree(s, i, j) == \A k \in i..j : ~IsSpace(s[k])

EmailShaped(s) ==
    \E i \in 1..Len(s), j \in 1..Len(s) :
        /\ SpaceFree(s, i, j)
        /\ \E a \in (i + 1)..j, d \in (i + 1)..(j - 1) :
              s[a] = "@" /\ s[d] = "." /\ a + 1 < d

RuleViolated(k) ==
    CASE k = "nombreUsuario" ->
            ~( /\ Len(formData.nombreUsuario) >= 3
               /\ \A i \in 1..Len(formData.nombreUsuario) :
                     IsWord(formData.nombreUsuario[i]) )
      [] k = "nombre" -> Len(trim(formData.nombre)) < 2
      [] k = "apellido" -> Len(trim(formData.apellido)) < 2
      [] k = "email" -> ~EmailShaped(formData.email)
      [] k = "password" ->
            ~( /\ Len(formData.password) >= 6
               /\ Has(formData.password, IsLower)
               /\ Has(formData.password, IsUpper)
               /\ Has(formData.password, IsDigit) )
      [] k = "confirmPassword" ->
            \/ formData.confirmPassword = <<>>
            \/ formData.confirmPassword # formData.password
      [] k = "terms" -> ~acceptTerms

(* C20 as stated: after a submit the error map has an entry for exactly    *)
(* the fields whose rule is violated, whatever the other fields are, and   *)
(* register was called only if the map has no entry.                       *)
C20_EveryRuleEvaluated ==
    Submitted =>
        /\ DOMAIN errors = {k \in Fields : RuleViolated(k)}
        /\ registered # Null <=> DOMAIN errors = {}

(* C21: the strength shown for the password of the form is a number of    *)
(* 0..5, the number of the five criteria the password meets; and whether   *)
(* a submitted password is taken is settled by its being non-empty, its    *)
(* length and the password pattern, whatever its strength.                 *)
C21_StrengthCountsCriteria ==
    LET pw == formData.password
        strength == getPasswordStrength(pw)
        met == {k \in 1..5 :
                   \/ k = 1 /\ Len(pw) >= 6
                   \/ k = 2 /\ \E i \in 1..Len(pw) : pw[i] \in LowerCase
                   \/ k = 3 /\ \E i \in 1..Len(pw) : pw[i] \in UpperCase
                   \/ k = 4 /\ \E i \in 1..Len(pw) : pw[i] \in Digits
                   \/ k = 5 /\ \E i \in 1..Len(pw) :
                                   pw[i] \in {"!", "@", "#", "$", "%", "^", "&", "*"}}
    IN  /\ strength \in 0..5
        /\ strength = Cardinality(met)
        /\ Submitted =>
              ("password" \in DOMAIN errors
                  <=> (pw = <<>> \/ Len(pw) < 6 \/ ~PasswordPattern(pw)))

(* a password of strength 4, without a symbol, was submitted and taken; a  *)
(* strength of 5 was not needed                                            *)
C21_Witness ==
    /\ registered # Null
    /\ getPasswordStrength(formData.password) = 4
    /\ \A i \in 1..Len(formData.password) : formData.password[i] # "!"

(* a getById of the validation of the checkout of c was rejected *)
ValidationFetchFailed(c) ==
    \E j \in 1..Len(calls[c]) :
        calls[c][j].phase = "validate" /\ ~calls[c][j].ok

(* C22: a checkout one of whose validation fetches was rejected is Failed  *)
(* with a message, has issued no call of the decrement phase, has written  *)
(* no stock and has left the cart as it was.                               *)
C22_FetchFailureFailsCheckout ==
    \A c \in Clients :
        ValidationFetchFailed(c) =>
            /\ pc[c] = "Failed"
            /\ checkoutError[c] \in {<<"NotFound">>, <<"NetworkError">>}
            /\ \A j \in 1..Len(calls[c]) :
                  calls[c][j].phase = "validate" /\ calls[c][j].op = "getById"
            /\ order[c] = Null
            /\ cartItems[c] = items[c]
            /\ ~isCheckingOut[c]

(* the fetch of the second of two lines was rejected as not found after    *)
(* the first line had passed                                               *)
C22_Witness ==
    \E c \in Clients :
        /\ Len(items[c]) = 2
        /\ Len(calls[c]) = 2
        /\ calls[c][1].ok
        /\ calls[c][1].stock >= items[c][1].quantity
        /\ ~calls[c][2].ok
        /\ checkoutError[c] = <<"NotFound">>
        /\ pc[c] = "Failed"

(* C23: when every remote call is answered in the end, a checkout that is *)
(* in flight is Done or Failed in the end; and nothing but the answer to   *)
(* its remote call moves a checkout that is in flight (there is no         *)
(* timeout), so without the answer it stays where it is.                   *)
C23_EndsWhenCallsRespond ==
    /\ \A c \in Clients : (pc[c] \in InFlight) ~> Ended(c)
    /\ [][\A c \in Clients :
             (pc[c] \in InFlight /\ <<pc[c], idx[c], isCheckingOut[c]>>
                                       # <<pc'[c], idx'[c], isCheckingOut'[c]>>)
                 => /\ Len(calls'[c]) = Len(calls[c]) + 1
                    /\ SubSeq(calls'[c], 1, Len(calls[c])) = calls[c]]_vars

(* a checkout of two lines went through its six remote calls and is Done   *)
(* while the checkout of the other client waits for the answer to a write  *)
C23_Witness ==
    \E c \in Clients :
        /\ pc[c] = "Done"
        /\ Len(calls[c]) = 6
        /\ pc[Other(c)] = "Writing"

(* the stock the validation of the checkout of c read for product p (its  *)
(* cart has a line of p and that line was fetched)                         *)
ValidatedAt(c, p, s) ==
    \E i \in 1..Len(items[c]) :
        /\ items[c][i].id = p
        /\ i <= Len(ValidateCalls(c))
        /\ ValidateCalls(c)[i].ok
        /\ ValidateCalls(c)[i].stock = s

(* C24 as stated: when the checkouts of two clients both validated product *)
(* p at the stock s, before either had written it, and both are Done, the  *)
(* stock of p is max(0, s - q1 - q2).                                      *)
C24_NoDecrementLost ==
    \A p \in Products : \A s \in 0..MaxStock :
        ( /\ pc["a"] = "Done"
          /\ pc["b"] = "Done"
          /\ ValidatedAt("a", p, s)
          /\ ValidatedAt("b", p, s) )
            => stock[p] = Max(0, s - Qty("a", p) - Qty("b", p))

(* C25 as stated: the value a checkout is about to write for a product is *)
(* never greater than the stock the service holds for it at that moment.   *)
C25_NoWriteRaisesStock ==
    \A c \in Clients :
        pc[c] = "Writing" =>
            LET item == items[c][idx[c]]
            IN  NewStock(product[c].stock, item.quantity) <= stock[item.id]

(* C26 as stated: a checkout without an authenticated user whose lines    *)
(* all passed validation has ended in Failed with a non-empty message,    *)
(* has issued no decrement call and placed no order, and the Cart Store   *)
(* still holds the lines the checkout started from.                        *)
C26_NoUserFailsBeforeDecrement ==
    \A c \in Clients :
        (user = Null /\ AllValidated(c)) =>
            /\ pc[c] = "Failed"
            /\ ~isCheckingOut[c]
            /\ checkoutError[c] # Null
            /\ DecrementCalls(c) = <<>>
            /\ order[c] = Null
            /\ alerted[c] = Null
            /\ cartItems[c] = items[c]

C26_Witness ==
    /\ user = Null
    /\ AllValidated("a")
    /\ Len(items["a"]) = 2
    /\ pc["a"] = "Failed"
    /\ checkoutError["a"] = TypeErrorMessage
    /\ cartItems["a"] = items["a"]

(* C27: the in-progress flag of a client is up exactly while its checkout *)
(* is validating or decrementing (between the calls of a decrement         *)
(* included); it is down before the first checkout and after every         *)
(* outcome, Done or Failed, so the checkout trigger is not busy then.      *)
C27_FlagFollowsCheckout ==
    \A c \in Clients :
        /\ isCheckingOut[c] <=> pc[c] \in InFlight
        /\ pc[c] \in {"Idle", "Done", "Failed"} => ~TriggerBusy(c)

(* one checkout is Done and the other has failed on a decrement: both      *)
(* flags are down                                                          *)
C27_Witness ==
    \E c \in Clients :
        /\ pc[c] = "Done"
        /\ pc[Other(c)] = "Failed"
        /\ \E k \in 1..Len(items[Other(c)]) : DecrementFailedAt(Other(c), k)
        /\ ~isCheckingOut[c]
        /\ ~isCheckingOut[Other(c)]

(* the other ways a checkout fails, each with the flag down afterwards:    *)
(* a line short of stock, a rejected fetch of the validation, and the      *)
(* exception of a checkout without a user                                  *)
C27_FailedByValidation ==
    \E c \in Clients :
        /\ pc[c] = "Failed"
        /\ \E i \in 1..Len(items[c]) : MetInsufficient(c, i)
        /\ ~isCheckingOut[c]

C27_FailedByException ==
    \E c \in Clients :
        /\ pc[c] = "Failed"
        /\ user = Null
        /\ AllValidated(c)
        /\ ~isCheckingOut[c]

(* C18 as stated: while a checkout is in flight the cart still holds the   *)
(* lines the checkout was started with.                                    *)
C18_NoEditDuringCheckout ==
    \A c \in Clients : pc[c] \in InFlight => cartItems[c] = items[c]

====
